---- MODULE Spec2Model ----
(***************************************************************************)
(* Model of the component orchestration layer of mongui / vi-mongo:        *)
(*   core.App   (internal/tui/core/app.go)   focus record and style change *)
(*   core.Pages (internal/tui/core/pages.go) wrapper around tview.Pages    *)
(*                                                                         *)
(* Views are tview primitives identified by their Identifier.  Every view  *)
(* is a plain focus holder: Application.SetFocus(p) leaves the focus on p. *)
(* Each component adds itself to the page stack under its own identifier   *)
(* (DocPeeker.Peek: root.AddPage(TextPeekerComponent, dc.ModalView, ..)),  *)
(* so a page's name and its item carry the same identity.  The resize flag *)
(* of a page only affects drawing and is left out.                         *)
(***************************************************************************)
EXTENDS Integers, Sequences, FiniteSets, TLC

\* ---------------------------------------------------------------- bounds
NumOverlays == 2
NumStyles == 2
MaxOpen == 2
NumComponents == 2
NumThreads == 2
MaxNet == 2
MaxFrames == 3
MaxText == 2
MaxFile == 5
MaxDoc == 2
MaxSlice == 1
MaxIds == 3

\* ------------------------------------------------------------ identities
Nil == -1
Main == 0
Overlays == 1..NumOverlays
Views == {Main} \cup Overlays
StyleNames == 1..NumStyles

Components == 1..NumComponents

Threads == 1..NumThreads

\* the goroutines other than the callers of Threads
UI == 0
Listener == -2

\* tcell.KeyEsc, tcell.KeyEnter
KeyEsc == "Esc"
KeyEnter == "Enter"

\* what the input field can hold
Texts == {"", "q"}

\* the line separator of history.txt
NL == "\n"

\* the bytes a text can be made of
HistChars == {"q", NL}

\* the texts SaveToHistory can be called with
HistTexts == UNION {[1..k -> HistChars] : k \in 0..MaxText}

\* []byte(text) for the texts of the input field
Bytes(txt) == IF txt = "" THEN <<>> ELSE <<txt>>

VARIABLES pages, focus, previousFocus, currentStyle, styles, pagesStyle,
          published, last, shown, nested, run, reshow,
          subscribers, deliveries,
          enabled, autocompleteOn, docKeys, mutex, net, threads, lastWrite, epoch,
          ui, listener, updates, text, outcome,
          frames, policy,
          historyFile, saved, lastHist,
          peeker, cfg, collection, daoLast

appVars == <<pages, focus, previousFocus, currentStyle, styles, pagesStyle,
             published, last, shown, nested, run, reshow>>

busVars == <<subscribers, deliveries>>

barVars == <<enabled, autocompleteOn, docKeys, mutex, net, threads, lastWrite, epoch>>

lsnVars == <<ui, listener, updates, text, outcome>>

reVars == <<frames, policy>>

histVars == <<historyFile, saved, lastHist>>

peekVars == <<peeker>>

cfgVars == <<cfg>>

daoVars == <<collection, daoLast>>

extVars == <<peekVars, cfgVars, daoVars>>

vars == <<appVars, busVars, barVars, lsnVars, reVars, histVars, extVars>>

\* ------------------------------------------------------------ tview.Pages
\* page{Name, Item, Visible}
Page(name, item, visible) == [name |-> name, item |-> item, visible |-> visible]

RemoveAt(s, i) == SubSeq(s, 1, i - 1) \o SubSeq(s, i + 1, Len(s))

IndexOf(pgs, name) ==
    IF \E i \in 1..Len(pgs) : pgs[i].name = name
    THEN CHOOSE i \in 1..Len(pgs) : pgs[i].name = name
    ELSE 0

\* Primitive.HasFocus of a page item
ItemHasFocus(item, f) == item = f

\* tview.Pages.HasFocus: some page item holds the focus
PagesHasFocus(pgs, f) == \E i \in 1..Len(pgs) : ItemHasFocus(pgs[i].item, f)

\* tview.Pages.HasPage
HasPage(pgs, name) == IndexOf(pgs, name) # 0

\* the topmost visible page item, the one tview.Pages.Focus delegates to
TopItem(pgs) ==
    IF \E i \in 1..Len(pgs) : pgs[i].visible
    THEN pgs[CHOOSE i \in 1..Len(pgs) :
                 pgs[i].visible /\ \A j \in (i + 1)..Len(pgs) : ~pgs[j].visible].item
    ELSE Nil

\* tview.Pages.Focus(setFocus): the application focus after the delegation
TviewFocus(pgs, f) == IF TopItem(pgs) # Nil THEN TopItem(pgs) ELSE f

\* tview.Pages.AddPage: a page of the same name is removed, the new page is
\* appended, and when the Pages held focus the top visible page is focused.
TviewAddPage(pgs, f, name, item, visible) ==
    LET hasFocus == PagesHasFocus(pgs, f)
        i == IndexOf(pgs, name)
        kept == IF i # 0 THEN RemoveAt(pgs, i) ELSE pgs
        new == Append(kept, Page(name, item, visible))
    IN [pages |-> new, focus |-> IF hasFocus THEN TviewFocus(new, f) ELSE f]

\* tview.Pages.RemovePage: the page is removed; if it was visible and no
\* page before the last one is visible the last page becomes visible; when
\* the Pages held focus the top visible page is focused.
TviewRemovePage(pgs, f, name) ==
    LET hasFocus == PagesHasFocus(pgs, f)
        i == IndexOf(pgs, name)
        isVisible == i # 0 /\ pgs[i].visible
        kept == IF i # 0 THEN RemoveAt(pgs, i) ELSE pgs
        n == Len(kept)
        new == IF isVisible /\ n > 0 /\ \A j \in 1..(n - 1) : ~kept[j].visible
               THEN [kept EXCEPT ![n].visible = TRUE]
               ELSE kept
    IN [pages |-> new, focus |-> IF hasFocus THEN TviewFocus(new, f) ELSE f]

\* ------------------------------------------------------------ core.App
\* The application state the operations below transform.  pub collects the
\* events broadcast so far by the running operation.
AppState == [pages |-> pages, focus |-> focus, previousFocus |-> previousFocus,
             currentStyle |-> currentStyle, styles |-> styles,
             pagesStyle |-> pagesStyle, pub |-> <<>>, err |-> FALSE]

\* manager.EventMsg as a subscriber receives it, together with what the
\* subscriber can observe of the application at the time of delivery.
EventMsg(type, data, st) ==
    [type |-> type, data |-> data,
     previousFocusAt |-> st.previousFocus, pagesAt |-> st.pages,
     focusAt |-> st.focus, pagesStyleAt |-> st.pagesStyle]

\* manager.ElementManager.Broadcast: synchronous delivery to the subscribers
Broadcast(st, type, data) == [st EXCEPT !.pub = Append(@, EventMsg(type, data, st))]

\* App.FocusChanged
FocusChanged(st, p) == Broadcast(st, "FocusChanged", p)

\* App.SetPreviousFocus
SetPreviousFocus(st) == [st EXCEPT !.previousFocus = st.focus]

SetFocusNoRecord(st, p) == FocusChanged([st EXCEPT !.focus = p], p)

SetFocusPublishesOld(st, p) ==
    FocusChanged([st EXCEPT !.previousFocus = st.focus, !.focus = p], st.focus)

\* App.SetFocus
SetFocus(st, p) ==
    FocusChanged([st EXCEPT !.previousFocus = st.focus, !.focus = p], p)

GiveBackFocusNoClear(st) ==
    IF st.previousFocus # Nil THEN SetFocus(st, st.previousFocus) ELSE st

GiveBackFocusClearsFirst(st) ==
    IF st.previousFocus # Nil
    THEN SetFocus([st EXCEPT !.previousFocus = Nil], st.previousFocus)
    ELSE st

\* App.GiveBackFocus
GiveBackFocus(st) ==
    IF st.previousFocus # Nil
    THEN [SetFocus(st, st.previousFocus) EXCEPT !.previousFocus = Nil]
    ELSE st

AddPageCapturesAfter(st, view, page, visable) ==
    LET t == TviewAddPage(st.pages, st.focus, view, page, visable)
        s2 == SetPreviousFocus([st EXCEPT !.pages = t.pages, !.focus = t.focus])
    IN IF visable /\ ItemHasFocus(page, s2.focus)
       THEN FocusChanged(s2, page)
       ELSE s2

\* Pages.AddPage
AddPage(st, view, page, visable) ==
    LET s1 == SetPreviousFocus(st)
        t == TviewAddPage(s1.pages, s1.focus, view, page, visable)
        s2 == [s1 EXCEPT !.pages = t.pages, !.focus = t.focus]
    IN IF visable /\ ItemHasFocus(page, s2.focus)
       THEN FocusChanged(s2, page)
       ELSE s2

RemovePageKeepsRecord(st, view) ==
    LET t == TviewRemovePage(st.pages, st.focus, view)
    IN [st EXCEPT !.pages = t.pages, !.focus = t.focus]

\* Pages.RemovePage
RemovePage(st, view) ==
    LET t == TviewRemovePage(st.pages, st.focus, view)
    IN GiveBackFocus([st EXCEPT !.pages = t.pages, !.focus = t.focus])

SetStyleBroadcastsTwice(st, styleName, updateOk, loadOk) ==
    LET s1 == [st EXCEPT !.currentStyle = styleName]
    IN IF ~updateOk THEN [s1 EXCEPT !.err = TRUE]
       ELSE IF ~loadOk THEN [s1 EXCEPT !.styles = Nil, !.err = TRUE]
       ELSE LET s3 == [s1 EXCEPT !.styles = s1.currentStyle,
                                 !.pagesStyle = s1.currentStyle]
            IN Broadcast(Broadcast(s3, "StyleChanged", Nil), "StyleChanged", Nil)

SetStyleBroadcastsFirst(st, styleName, updateOk, loadOk) ==
    LET s1 == Broadcast([st EXCEPT !.currentStyle = styleName], "StyleChanged", Nil)
    IN IF ~updateOk THEN [s1 EXCEPT !.err = TRUE]
       ELSE IF ~loadOk THEN [s1 EXCEPT !.styles = Nil, !.err = TRUE]
       ELSE [s1 EXCEPT !.styles = s1.currentStyle, !.pagesStyle = s1.currentStyle]

\* App.SetStyle; updateOk and loadOk are the outcomes of config.UpdateConfig
\* and config.LoadStyles, which returns a nil *Styles together with an error.
SetStyle(st, styleName, updateOk, loadOk) ==
    LET s1 == [st EXCEPT !.currentStyle = styleName]
    IN IF ~updateOk THEN [s1 EXCEPT !.err = TRUE]
       ELSE IF ~loadOk THEN [s1 EXCEPT !.styles = Nil, !.err = TRUE]
       ELSE LET s2 == [s1 EXCEPT !.styles = s1.currentStyle]
                s3 == [s2 EXCEPT !.pagesStyle = s2.styles]
            IN Broadcast(s3, "StyleChanged", Nil)

\* ------------------------------------------------- observation of a call
\* What the last call was and the state it started from.
LastCall(op, id, visable) ==
    [op |-> op, id |-> id, visable |-> visable,
     focus0 |-> focus, previousFocus0 |-> previousFocus, pages0 |-> pages,
     currentStyle0 |-> currentStyle, styles0 |-> styles,
     pagesStyle0 |-> pagesStyle,
     before |-> last.op, focus00 |-> last.focus0]

BasePages == <<Page(Main, Main, TRUE)>>

\* Progress of the call sequence AddPage(a), AddPage(b), RemovePage(b),
\* RemovePage(a) started with only the base page shown and focused.
NestedIdle == [stage |-> 0, a |-> Nil, b |-> Nil]

NestedNext(op, id, visable) ==
    IF op = "AddPage" /\ visable /\ nested.stage = 1 /\ id # nested.a
    THEN [nested EXCEPT !.stage = 2, !.b = id]
    ELSE IF op = "RemovePage" /\ nested.stage = 2 /\ id = nested.b
    THEN [nested EXCEPT !.stage = 3]
    ELSE IF op = "RemovePage" /\ nested.stage = 3 /\ id = nested.a
    THEN [nested EXCEPT !.stage = 4]
    ELSE IF op = "AddPage" /\ visable /\ pages = BasePages /\ focus = Main
    THEN [stage |-> 1, a |-> id, b |-> Nil]
    ELSE NestedIdle

\* A run of AddPage/RemovePage calls started where only the base page is
\* shown and no focus is recorded; open counts the shows of each id that no
\* hide has matched yet.
NoneOpen == [o \in Overlays |-> 0]

RunIdle == [active |-> FALSE, open |-> NoneOpen, calls |-> 0]

RunFresh == [active |-> TRUE, open |-> NoneOpen, calls |-> 0]

RunNext(op, id, st) ==
    LET r == IF run.active /\ op = "AddPage" /\ run.open[id] < MaxOpen
                THEN [run EXCEPT !.open[id] = @ + 1,
                                 !.calls = IF @ < 2 * MaxOpen THEN @ + 1 ELSE @]
             ELSE IF run.active /\ op = "RemovePage" /\ run.open[id] > 0
                THEN [run EXCEPT !.open[id] = @ - 1,
                                 !.calls = IF @ < 2 * MaxOpen THEN @ + 1 ELSE @]
             ELSE RunIdle
    IN IF ~r.active /\ st.pages = BasePages /\ st.previousFocus = Nil
       THEN RunFresh
       ELSE r

\* Overlay x shown from view v, possibly shown again, then removed.
ReshowIdle == [phase |-> "idle", x |-> Nil, v |-> Nil, again |-> FALSE]

ReshowNext(op, id, visable) ==
    IF op = "AddPage" /\ visable /\ reshow.phase = "shown" /\ id = reshow.x
    THEN [reshow EXCEPT !.again = TRUE]
    ELSE IF op = "RemovePage" /\ reshow.phase = "shown" /\ id = reshow.x
    THEN [reshow EXCEPT !.phase = "removed"]
    ELSE IF op = "AddPage" /\ visable /\ ~HasPage(pages, id)
    THEN [phase |-> "shown", x |-> id, v |-> focus, again |-> FALSE]
    ELSE ReshowIdle

\* The call returns: st is the application state the operation ends in.
Commit(st) ==
    /\ pages' = st.pages
    /\ focus' = st.focus
    /\ previousFocus' = st.previousFocus
    /\ currentStyle' = st.currentStyle
    /\ styles' = st.styles
    /\ pagesStyle' = st.pagesStyle
    /\ published' = [events |-> st.pub, err |-> st.err]

\* The record of the call and of the call sequences it continues.
Observe(op, id, visable, st) ==
    /\ last' = LastCall(op, id, visable)
    /\ shown' = IF op = "AddPage" THEN shown \cup {id} ELSE shown
    /\ nested' = NestedNext(op, id, visable)
    /\ run' = RunNext(op, id, st)
    /\ reshow' = ReshowNext(op, id, visable)

\* ------------------------------------------------------- manager (event bus)
\* ElementManager.Subscribe: one handler per component, kept in registration
\* order; registering again replaces the handler of that component.
Subscribe(subs, c) ==
    IF \E i \in 1..Len(subs) : subs[i] = c THEN subs ELSE Append(subs, c)

\* ElementManager.Unsubscribe
Unsubscribe(subs, c) == SelectSeq(subs, LAMBDA x : x # c)

\* One Broadcast: every registered handler is invoked once with the event;
\* a handler of failing fails, which is logged and does not end the delivery.
Deliver(subs, k, event, failing) ==
    [i \in 1..Len(subs) |->
        [to |-> subs[i], broadcast |-> k, event |-> event,
         failed |-> subs[i] \in failing]]

\* The handler invocations of all the broadcasts of one operation
RECURSIVE DeliverAll(_, _, _, _)
DeliverAll(pub, k, subs, failing) ==
    IF k > Len(pub) THEN <<>>
    ELSE Deliver(subs, k, pub[k], failing) \o DeliverAll(pub, k + 1, subs, failing)

BusInit ==
    /\ subscribers = <<>>
    /\ deliveries = <<>>

\* ----------------------------------------------------------------- InputBar
\* The enabled flag, the autocomplete flag, the loaded keys and the balance
\* of PushComponent over PopComponent calls; wrote is the last write to a
\* field of the bar: who wrote and whether the writer held the bar's mutex.
BarState == [enabled |-> enabled, autocompleteOn |-> autocompleteOn,
             docKeys |-> docKeys, net |-> net, wrote |-> lastWrite]

Write(field, by, locked) == [field |-> field, by |-> by, locked |-> locked]

\* InputBar.IsEnabled: reads the flag without taking the mutex
IsEnabled(b) == b.enabled

\* InputBar.Enable, between Lock and the deferred Unlock
Enable(b, by, locked) ==
    [b EXCEPT !.enabled = TRUE, !.net = @ + 1,
              !.wrote = Write("enabled", by, locked)]

\* InputBar.Disable, between Lock and the deferred Unlock
Disable(b, by, locked) ==
    [b EXCEPT !.enabled = FALSE, !.net = @ - 1,
              !.wrote = Write("enabled", by, locked)]

\* InputBar.ToggleAutocomplete, between Lock and the deferred Unlock
ToggleAutocomplete(b, by, locked) ==
    [b EXCEPT !.autocompleteOn = ~@,
              !.wrote = Write("autocompleteOn", by, locked)]

\* InputBar.LoadNewKeys: assigns docKeys, takes no lock
LoadNewKeys(b, keys, by, locked) ==
    [b EXCEPT !.docKeys = keys, !.wrote = Write("docKeys", by, locked)]

\* InputBar.Toggle: the method it goes on to call
Toggle(b) == IF IsEnabled(b) THEN "Disable" ELSE "Enable"

CommitBar(b) ==
    /\ enabled' = b.enabled
    /\ autocompleteOn' = b.autocompleteOn
    /\ docKeys' = b.docKeys
    /\ net' = b.net
    /\ lastWrite' = b.wrote

Idle == [pc |-> "idle", op |-> "none"]

AllIdle == \A t \in Threads : threads[t] = Idle

\* the Enable (Disable) calls begun and not yet past their critical section
InFlight(op) == Cardinality({t \in Threads : threads[t].op = op})

\* The calls made since the bar was last quiescent: did[t] is what thread t
\* has called, e0 the enabled flag when the first of these calls began.
NoCalls == [t \in Threads |-> "none"]

EpochNext(t, kind) ==
    IF epoch.did = NoCalls
    THEN [e0 |-> enabled, did |-> [NoCalls EXCEPT ![t] = kind]]
    ELSE IF epoch.did[t] = "none"
    THEN [epoch EXCEPT !.did[t] = kind]
    ELSE IF AllIdle
    THEN [e0 |-> enabled, did |-> [NoCalls EXCEPT ![t] = kind]]
    ELSE [epoch EXCEPT !.did[t] = "other"]

\* NewInputBar
BarInit ==
    /\ enabled = FALSE
    /\ autocompleteOn = FALSE
    /\ docKeys = "none"
    /\ mutex = Nil
    /\ net = 0
    /\ threads = [t \in Threads |-> Idle]
    /\ lastWrite = Write("none", Nil, TRUE)
    /\ epoch = [e0 |-> FALSE, did |-> NoCalls]

\* a call of Enable, Disable or ToggleAutocomplete begins: next is Lock
Begin(t, op, kind) ==
    /\ threads[t] = Idle
    /\ threads' = [threads EXCEPT ![t] = [pc |-> "lock", op |-> op]]
    /\ epoch' = EpochNext(t, kind)
    /\ UNCHANGED <<enabled, autocompleteOn, docKeys, mutex, net, lastWrite>>
    /\ UNCHANGED <<appVars, busVars, lsnVars, reVars, histVars, extVars>>

BarEnable ==
    \E t \in Threads :
        /\ net + InFlight("Enable") < MaxNet
        /\ Begin(t, "Enable", "other")

BarDisable ==
    \E t \in Threads :
        /\ net - InFlight("Disable") > -MaxNet
        /\ Begin(t, "Disable", "other")

\* Toggle reads the flag and goes on to Enable or Disable
BarToggle ==
    \E t \in Threads :
        /\ net + InFlight("Enable") < MaxNet
        /\ net - InFlight("Disable") > -MaxNet
        /\ Begin(t, Toggle(BarState), "Toggle")

BarToggleAutocomplete ==
    \E t \in Threads : Begin(t, "ToggleAutocomplete", "other")

BarLoadNewKeys ==
    \E t \in Threads, keys \in {"none", "keys"} :
        /\ threads[t] = Idle
        /\ CommitBar(LoadNewKeys(BarState, keys, t, mutex = t))
        /\ epoch' = EpochNext(t, "other")
        /\ UNCHANGED <<mutex, threads>>
        /\ UNCHANGED <<appVars, busVars, lsnVars, reVars, histVars, extVars>>

\* i.mutex.Lock()
BarLock ==
    \E t \in Threads :
        /\ threads[t].pc = "lock"
        /\ mutex = Nil
        /\ mutex' = t
        /\ threads' = [threads EXCEPT ![t].pc = "locked"]
        /\ UNCHANGED <<enabled, autocompleteOn, docKeys, net, lastWrite, epoch>>
        /\ UNCHANGED <<appVars, busVars, lsnVars, reVars, histVars, extVars>>

\* the body of the method and the deferred i.mutex.Unlock()
BarCritical ==
    \E t \in Threads :
        /\ threads[t].pc = "locked"
        /\ CommitBar(CASE threads[t].op = "Enable" -> Enable(BarState, t, mutex = t)
                       [] threads[t].op = "Disable" -> Disable(BarState, t, mutex = t)
                       [] OTHER -> ToggleAutocomplete(BarState, t, mutex = t))
        /\ mutex' = Nil
        /\ threads' = [threads EXCEPT ![t] = Idle]
        /\ UNCHANGED epoch
        /\ UNCHANGED <<appVars, busVars, lsnVars, reVars, histVars, extVars>>

NextBar ==
    \/ BarEnable
    \/ BarDisable
    \/ BarToggle
    \/ BarToggleAutocomplete
    \/ BarLoadNewKeys
    \/ BarLock
    \/ BarCritical

\* ------------------------------------------------------------- history.txt
\* the file: whether it exists and the bytes it holds
File(exists, data) == [exists |-> exists, data |-> data]

\* the outcomes of the system calls of SaveToHistory: all succeed, or
\* os.OpenFile, os.ReadFile or file.WriteString fails
SaveFailures == {"none", "open", "read", "write"}

\* strings.Split(s, "\n")
RECURSIVE Split(_)
Split(s) ==
    IF \E i \in 1..Len(s) : s[i] = NL
    THEN LET i == CHOOSE k \in 1..Len(s) :
                      s[k] = NL /\ \A j \in 1..(k - 1) : s[j] # NL
         IN <<SubSeq(s, 1, i - 1)>> \o Split(SubSeq(s, i + 1, Len(s)))
    ELSE <<s>>

\* InputBar.LoadHistory: the non-empty lines of the file
LoadHistory(f, readOk) ==
    IF ~f.exists \/ ~readOk
    THEN [history |-> <<>>, err |-> TRUE]
    ELSE [history |-> SelectSeq(Split(f.data), LAMBDA line : line # <<>>),
          err |-> FALSE]

\* InputBar.SaveToHistory: the file is opened for appending and created when
\* missing; the text is appended as one line unless LoadHistory returns it.
SaveToHistory(f, txt, fail) ==
    IF fail = "open" THEN [file |-> f, err |-> TRUE]
    ELSE LET opened == [f EXCEPT !.exists = TRUE]
             h == LoadHistory(opened, fail # "read")
         IN IF h.err THEN [file |-> opened, err |-> TRUE]
            ELSE IF \E i \in 1..Len(h.history) : h.history[i] = txt
            THEN [file |-> opened, err |-> FALSE]
            ELSE IF fail = "write" THEN [file |-> opened, err |-> TRUE]
            ELSE [file |-> [opened EXCEPT !.data = @ \o txt \o <<NL>>],
                  err |-> FALSE]

\* the last call on the history: the text, the error returned, the file
\* before the call, whether the call repeats the successful call right
\* before it, and what LoadHistory returned
HistCall(op, txt, err, history) ==
    [op |-> op, text |-> txt, err |-> err, before |-> historyFile,
     repeat |-> op = "Save" /\ lastHist.op = "Save" /\ ~lastHist.err
                /\ lastHist.text = txt,
     history |-> history]

\* the texts saved so far, each once, in the order of their first save
SavedNext(txt, err) ==
    IF ~err /\ \A i \in 1..Len(saved) : saved[i] # txt
    THEN Append(saved, txt) ELSE saved

\* SaveToHistory(txt) returns r
HistCommit(txt, r) ==
    /\ historyFile' = r.file
    /\ lastHist' = HistCall("Save", txt, r.err, <<>>)
    /\ saved' = SavedNext(txt, r.err)

HistSave ==
    \E txt \in HistTexts, fail \in SaveFailures :
        /\ Len(historyFile.data) + Len(txt) + 1 <= MaxFile
        /\ HistCommit(txt, SaveToHistory(historyFile, txt, fail))
        /\ UNCHANGED <<appVars, busVars, barVars, lsnVars, reVars, extVars>>

HistLoad ==
    \E readOk \in BOOLEAN :
        LET h == LoadHistory(historyFile, readOk)
        IN /\ lastHist' = HistCall("Load", <<>>, h.err, h.history)
           /\ UNCHANGED <<historyFile, saved>>
           /\ UNCHANGED <<appVars, busVars, barVars, lsnVars, reVars, extVars>>

NextHistory ==
    \/ HistSave
    \/ HistLoad

\* no history.txt yet
HistoryInit ==
    /\ historyFile = File(FALSE, <<>>)
    /\ saved = <<>>
    /\ lastHist = [op |-> "none", text |-> <<>>, err |-> FALSE,
                   before |-> File(FALSE, <<>>), repeat |-> FALSE,
                   history |-> <<>>]

\* ------------------------------------------- InputBar keys and EventListener
TerminatingKeys == {KeyEsc, KeyEnter}

\* the input capture installed by setShortcuts: "send" hands the key to the
\* listener over eventChan, "pass" lets the input field handle the event
InputCapture(key, autocompleteVisible) ==
    IF autocompleteVisible THEN "pass"
    ELSE IF key \in TerminatingKeys THEN "send"
    ELSE "pass"

Call(fn, arg) == [fn |-> fn, arg |-> arg]

\* what running an update did: the key it was queued for, the goroutine
\* that ran it, the text the bar held, the flag before and after, whether a
\* failure was logged, and the calls made to accept and reject
Outcome(key, by, txt, before, after, logged, calls) ==
    [key |-> key, by |-> by, textAt |-> txt, wasEnabled |-> before.enabled,
     enabledAfter |-> after.enabled, logged |-> logged, calls |-> calls]

UpdateAcceptsAlways(b, key, txt, saveOk, by) ==
    [bar |-> Disable(b, by, TRUE),
     out |-> Outcome(key, by, txt, b, Disable(b, by, TRUE), FALSE,
                     <<Call("accept", txt)>>)]

UpdateRejectsOnSaveFailure(b, key, txt, saveOk, by) ==
    [bar |-> Disable(b, by, TRUE),
     out |-> Outcome(key, by, txt, b, Disable(b, by, TRUE),
                     key = KeyEnter /\ ~saveOk,
                     IF key = KeyEsc \/ ~saveOk THEN <<Call("reject", "none")>>
                     ELSE <<Call("accept", txt)>>)]

\* The function EventListener queues for a key: Disable, then reject() for
\* Esc; Disable, GetText, SaveToHistory (a failure is logged) and
\* accept(text) for Enter.  by is the goroutine that runs it.
Update(b, key, txt, saveOk, by) ==
    [bar |-> Disable(b, by, TRUE),
     out |-> Outcome(key, by, txt, b, Disable(b, by, TRUE),
                     key = KeyEnter /\ ~saveOk,
                     IF key = KeyEsc THEN <<Call("reject", "none")>>
                     ELSE <<Call("accept", txt)>>)]

\* what can arrive on eventChan (chan interface{}): the two terminating
\* keys, another key, and a value that is not a tcell.Key
ChanValues == TerminatingKeys \cup {"Rune", "notKey"}

\* the type assertion key.(tcell.Key)
IsKey(v) == v # "notKey"

EventListenerQueuesEveryKey(b, q, key, txt, out) ==
    IF ~IsKey(key) THEN [bar |-> b, updates |-> q, out |-> out]
    ELSE [bar |-> b, updates |-> Append(q, key), out |-> out]

EventListenerRunsUpdate(b, q, key, txt, out) ==
    IF key \in TerminatingKeys
    THEN [bar |-> Update(b, key, txt, TRUE, Listener).bar, updates |-> q,
          out |-> Update(b, key, txt, TRUE, Listener).out]
    ELSE [bar |-> b, updates |-> q, out |-> out]

\* One turn of the loop of EventListener for a received value: a value that
\* is not a key is skipped; the switch queues an update for Esc and Enter
\* and does nothing else.
EventListener(b, q, key, txt, out) ==
    IF ~IsKey(key) THEN [bar |-> b, updates |-> q, out |-> out]
    ELSE IF key \in TerminatingKeys
    THEN [bar |-> b, updates |-> Append(q, key), out |-> out]
    ELSE [bar |-> b, updates |-> q, out |-> out]

\* go i.EventListener(accept, reject), issued by the component on the UI
\* goroutine
LsnStart ==
    /\ ui.pc = "loop"
    /\ listener.pc = "absent"
    /\ listener' = [pc |-> "recv", key |-> "none"]
    /\ UNCHANGED <<ui, updates, text, outcome>>
    /\ UNCHANGED <<appVars, busVars, barVars, reVars, histVars, extVars>>

\* the bar is opened: the UI goroutine calls i.Enable()
LsnOpen ==
    /\ ui.pc = "loop"
    /\ mutex = Nil
    /\ net < MaxNet
    /\ CommitBar(Enable(BarState, UI, TRUE))
    /\ UNCHANGED <<mutex, threads, epoch>>
    /\ UNCHANGED <<appVars, busVars, lsnVars, reVars, histVars, extVars>>

\* a key event reaches the input capture on the UI goroutine; a passed event
\* is handled by the input field, which may change its text
LsnKey ==
    \E key \in TerminatingKeys \cup {"Rune"}, visible \in BOOLEAN, txt \in Texts :
        /\ ui.pc = "loop"
        /\ IF InputCapture(key, visible) = "send"
           THEN /\ net - Len(updates) > -MaxNet
                /\ key = KeyEnter =>
                       Len(historyFile.data) + 2 * (Len(updates) + 1) <= MaxFile
                /\ ui' = [pc |-> "send", key |-> key]
                /\ UNCHANGED text
           ELSE /\ text' = (IF key = "Rune" THEN txt ELSE text)
                /\ UNCHANGED ui
        /\ UNCHANGED <<listener, updates, outcome>>
        /\ UNCHANGED <<appVars, busVars, barVars, reVars, histVars, extVars>>

\* i.eventChan <- event.Key() meets key := <-i.eventChan (unbuffered)
LsnReceive ==
    /\ ui.pc = "send"
    /\ listener.pc = "recv"
    /\ listener' = [pc |-> "got", key |-> ui.key]
    /\ ui' = [pc |-> "loop", key |-> "none"]
    /\ UNCHANGED <<updates, text, outcome>>
    /\ UNCHANGED <<appVars, busVars, barVars, reVars, histVars, extVars>>

\* a value other than a terminating key arrives on eventChan
LsnOtherValue ==
    \E v \in ChanValues \ TerminatingKeys :
        /\ listener.pc = "recv"
        /\ listener' = [pc |-> "got", key |-> v]
        /\ UNCHANGED <<ui, updates, text, outcome>>
        /\ UNCHANGED <<appVars, busVars, barVars, reVars, histVars, extVars>>

\* the listener handles the key; QueueUpdateDraw returns once the UI
\* goroutine has run the queued function
LsnHandle ==
    /\ listener.pc = "got"
    /\ LET r == EventListener(BarState, updates, listener.key, text, outcome)
       IN /\ CommitBar(r.bar)
          /\ updates' = r.updates
          /\ outcome' = r.out
    /\ listener' = [pc |-> IF listener.key \in TerminatingKeys
                           THEN "waiting" ELSE "recv",
                    key |-> "none"]
    /\ UNCHANGED <<ui, text, mutex, threads, epoch>>
    /\ UNCHANGED <<appVars, busVars, reVars, histVars, extVars>>

\* the UI goroutine runs the next queued update
LsnRunUpdate ==
    \E fail \in SaveFailures :
        /\ ui.pc = "loop"
        /\ updates # <<>>
        /\ mutex = Nil
        /\ LET saving == SaveToHistory(historyFile, Bytes(text), fail)
               r == Update(BarState, Head(updates), text, ~saving.err, UI)
           IN /\ CommitBar(r.bar)
              /\ outcome' = r.out
              /\ IF Head(updates) = KeyEnter
                 THEN HistCommit(Bytes(text), saving)
                 ELSE UNCHANGED histVars
        /\ updates' = Tail(updates)
        /\ listener' = IF listener.pc = "waiting"
                       THEN [pc |-> "recv", key |-> "none"] ELSE listener
        /\ UNCHANGED <<ui, text, mutex, threads, epoch>>
        /\ UNCHANGED <<appVars, busVars, reVars, extVars>>

NextListener ==
    \/ LsnStart
    \/ LsnOpen
    \/ LsnKey
    \/ LsnReceive
    \/ LsnOtherValue
    \/ LsnHandle
    \/ LsnRunUpdate

ListenerInit ==
    /\ ui = [pc |-> "loop", key |-> "none"]
    /\ listener = [pc |-> "absent", key |-> "none"]
    /\ updates = <<>>
    /\ text = ""
    /\ outcome = [key |-> "none", by |-> Nil, textAt |-> "", wasEnabled |-> FALSE,
                  enabledAfter |-> FALSE, logged |-> FALSE, calls |-> <<>>]

\* ------------------------------------------ handlers that call back the App
\* What the subscribed FocusChanged handler does: "observe" returns,
\* "refocus" calls SetFocus(Main) unless Main is the view of the event,
\* "giveBack" calls GiveBackFocus.
Policies == {"observe", "refocus", "giveBack"}

\* a GiveBackFocus call in progress: "start" is its entry, "clear" the
\* assignment previousFocus = nil that follows the return of SetFocus
Frame(pc, st) == [pc |-> pc, focusIn |-> st.focus, previousFocusIn |-> st.previousFocus]

\* The handler runs inside the Broadcast of FocusChanged(p): r.st is the
\* application when it returns or has entered GiveBackFocus, r.enters
\* whether it has entered GiveBackFocus.
Handler(st, p) ==
    IF policy = "refocus" /\ p # Main
    THEN [st |-> SetFocus(st, Main), enters |-> FALSE]
    ELSE [st |-> st, enters |-> policy = "giveBack"]

\* the calls in progress after the handler ran below the calls of below
Entered(below, r) ==
    IF r.enters THEN Append(below, Frame("start", r.st)) ELSE below

CommitReentry(st, fr) ==
    /\ Len(fr) <= MaxFrames
    /\ Commit(st)
    /\ frames' = fr
    /\ UNCHANGED <<last, shown, nested, run, reshow, policy>>
    /\ UNCHANGED <<busVars, barVars, lsnVars, histVars, extVars>>

\* a component subscribes its FocusChanged handler
ReSubscribe ==
    \E h \in Policies :
        /\ frames = <<>>
        /\ policy' = h
        /\ UNCHANGED <<appVars, frames, busVars, barVars, lsnVars, histVars, extVars>>

\* App.SetFocus called from outside a handler
ReSetFocus ==
    \E p \in Views :
        /\ frames = <<>>
        /\ LET r == Handler(SetFocus(AppState, p), p)
           IN CommitReentry(r.st, Entered(<<>>, r))

\* Pages.AddPage called from outside a handler
ReAddPage ==
    \E id \in Overlays, visable \in BOOLEAN :
        /\ frames = <<>>
        /\ LET st == AddPage(AppState, id, id, visable)
               r == IF st.pub # <<>> THEN Handler(st, id)
                    ELSE [st |-> st, enters |-> FALSE]
           IN CommitReentry(r.st, Entered(<<>>, r))

\* Pages.RemovePage called from outside a handler, up to its call of
\* GiveBackFocus
ReRemovePage ==
    \E id \in Overlays :
        /\ frames = <<>>
        /\ LET t == TviewRemovePage(pages, focus, id)
               st == [AppState EXCEPT !.pages = t.pages, !.focus = t.focus]
           IN CommitReentry(st, <<Frame("start", st)>>)

\* App.GiveBackFocus called from outside a handler
ReGiveBackFocus ==
    /\ frames = <<>>
    /\ CommitReentry(AppState, <<Frame("start", AppState)>>)

\* The innermost GiveBackFocus goes on: at its entry it returns when nothing
\* is recorded and otherwise calls SetFocus(previousFocus), whose
\* FocusChanged runs the handler; after SetFocus has returned it clears the
\* record and returns.
ReStep ==
    /\ frames # <<>>
    /\ LET n == Len(frames)
           below == SubSeq(frames, 1, n - 1)
       IN IF frames[n].pc = "clear"
          THEN CommitReentry([AppState EXCEPT !.previousFocus = Nil], below)
          ELSE IF previousFocus = Nil
          THEN CommitReentry(AppState, below)
          ELSE LET r == Handler(SetFocus(AppState, previousFocus), previousFocus)
               IN CommitReentry(r.st,
                                Entered(Append(below, [frames[n] EXCEPT !.pc = "clear"]), r))

NextReentry ==
    \/ ReSubscribe
    \/ ReSetFocus
    \/ ReAddPage
    \/ ReRemovePage
    \/ ReGiveBackFocus
    \/ ReStep

ReentryInit ==
    /\ frames = <<>>
    /\ policy = "observe"

\* --------------------------------------------------------------- mongo.Dao
\* the ObjectIDs and the contents of the documents of one collection
Ids == 1..MaxIds

Bodies == {"a", "b"}

\* a primitive.M: its _id, when it has one, and the rest of it
Document(hasId, id, body) == [hasId |-> hasId, id |-> id, body |-> body]

Documents ==
    {Document(TRUE, i, b) : i \in Ids, b \in Bodies}
        \cup {Document(FALSE, Nil, b) : b \in Bodies}

\* the number of documents the collection holds
Count(coll) == Cardinality({i \in Ids : coll[i] # "absent"})

\* the ObjectID the driver gives a document that has no _id
FreshId(coll) ==
    IF \E i \in Ids : coll[i] = "absent"
    THEN CHOOSE i \in Ids : coll[i] = "absent" /\ \A j \in Ids : coll[j] = "absent" => i <= j
    ELSE Nil

\* Collection.InsertOne: fails when the server cannot be reached or holds a
\* document of the same _id; calls counts the requests sent
InsertOne(coll, document, netOk) ==
    LET id == IF document.hasId THEN document.id ELSE FreshId(coll)
    IN IF ~netOk \/ coll[id] # "absent"
       THEN [coll |-> coll, err |-> TRUE, calls |-> 1]
       ELSE [coll |-> [coll EXCEPT ![id] = document.body], err |-> FALSE, calls |-> 1]

\* Dao.UpdateDocument
UpdateDocument(coll, id, document, netOk) == InsertOne(coll, document, netOk)

\* the last call of the Dao and the collection it started from
DaoCall(op, id, document, r) ==
    [op |-> op, id |-> id, document |-> document, err |-> r.err,
     calls |-> r.calls, before |-> collection]

DaoInit ==
    /\ collection = [i \in Ids |-> "absent"]
    /\ daoLast = [op |-> "none", id |-> Nil, document |-> Document(FALSE, Nil, "a"),
                  err |-> FALSE, calls |-> 0, before |-> [i \in Ids |-> "absent"]]

DaoUpdateDocument ==
    \E id \in Ids, document \in Documents, netOk \in BOOLEAN :
        /\ collection[id] # "absent"
        /\ ~document.hasId => FreshId(collection) # Nil
        /\ LET r == UpdateDocument(collection, id, document, netOk)
           IN /\ collection' = r.coll
              /\ daoLast' = DaoCall("UpdateDocument", id, document, r)
        /\ UNCHANGED <<appVars, busVars, barVars, lsnVars, reVars, histVars, peekVars, cfgVars>>

\* the collection changes under other clients of the server
DaoOtherInsert ==
    \E id \in Ids, b \in Bodies :
        /\ collection[id] = "absent"
        /\ collection' = [collection EXCEPT ![id] = b]
        /\ daoLast' = [daoLast EXCEPT !.op = "none"]
        /\ UNCHANGED <<appVars, busVars, barVars, lsnVars, reVars, histVars, peekVars, cfgVars>>

DaoOtherDelete ==
    \E id \in Ids :
        /\ collection[id] # "absent"
        /\ collection' = [collection EXCEPT ![id] = "absent"]
        /\ daoLast' = [daoLast EXCEPT !.op = "none"]
        /\ UNCHANGED <<appVars, busVars, barVars, lsnVars, reVars, histVars, peekVars, cfgVars>>

NextDao ==
    \/ DaoUpdateDocument
    \/ DaoOtherInsert
    \/ DaoOtherDelete

\* ------------------------------------------------------------ MergeConfigs
\* A struct value is the sequence of its fields; a field has a kind and, by
\* its kind, a string, a slice, nested fields or a bool.
StringField(v) == [kind |-> "string", str |-> v, slice |-> <<>>, fields |-> <<>>, flag |-> FALSE]

SliceField(v) == [kind |-> "slice", str |-> "", slice |-> v, fields |-> <<>>, flag |-> FALSE]

StructField(fs) == [kind |-> "struct", str |-> "", slice |-> <<>>, fields |-> fs, flag |-> FALSE]

BoolField(v) == [kind |-> "bool", str |-> "", slice |-> <<>>, fields |-> <<>>, flag |-> v]

\* the values of a string field and of a []string field
StringValues == {"", "a", "d"}

SliceValues == UNION {[1..n -> {"x"}] : n \in 0..MaxSlice}

\* type Key struct { Keys []string; Description string }
KeyValues ==
    {<<SliceField(ks), StringField(ds)>> : ks \in SliceValues, ds \in StringValues}

\* a configuration struct { Name string; Enabled bool; Toggle Key }
ConfigValues ==
    {<<StringField(n), BoolField(e), StructField(k)>> :
        n \in StringValues, e \in BOOLEAN, k \in KeyValues}

\* new(T): every field holds its zero value
ZeroConfig ==
    <<StringField(""), BoolField(FALSE),
      StructField(<<SliceField(<<>>), StringField("")>>)>>

MergeField(field, defaultField) ==
    CASE field.kind = "string" -> IF field.str = "" THEN defaultField ELSE field
      [] field.kind = "slice" -> IF Len(field.slice) = 0 THEN defaultField ELSE field
      [] OTHER -> field

\* mergeConfigsRecursive
RECURSIVE mergeConfigsRecursive(_, _)
mergeConfigsRecursive(loaded, defaultValue) ==
    [i \in 1..Len(loaded) |->
        IF loaded[i].kind = "struct"
        THEN StructField(mergeConfigsRecursive(loaded[i].fields, defaultValue[i].fields))
        ELSE MergeField(loaded[i], defaultValue[i])]

MergeConfigsSkipsNested(loaded, defaultConfig) ==
    [i \in 1..Len(loaded) |-> MergeField(loaded[i], defaultConfig[i])]

\* MergeConfigs
MergeConfigs(loaded, defaultConfig) == mergeConfigsRecursive(loaded, defaultConfig)

Config(stage, loaded, defaultConfig, merged, again) ==
    [stage |-> stage, loaded |-> loaded, defaults |-> defaultConfig,
     merged |-> merged, again |-> again]

CfgInit == cfg = Config("none", ZeroConfig, ZeroConfig, ZeroConfig, ZeroConfig)

CfgStep(c) ==
    /\ cfg' = c
    /\ UNCHANGED <<appVars, busVars, barVars, lsnVars, reVars, histVars, peekVars, daoVars>>

\* json.Unmarshal has filled the loaded configuration; the defaults are built
CfgLoad ==
    \E loaded \in ConfigValues, defaultConfig \in ConfigValues :
        /\ cfg.stage = "none"
        /\ CfgStep(Config("loaded", loaded, defaultConfig, ZeroConfig, ZeroConfig))

\* MergeConfigs(loaded, defaults)
CfgMerge ==
    /\ cfg.stage = "loaded"
    /\ CfgStep([cfg EXCEPT !.stage = "merged",
                           !.merged = MergeConfigs(cfg.loaded, cfg.defaults)])

\* MergeConfigs called again on the merged configuration
CfgMergeAgain ==
    /\ cfg.stage = "merged"
    /\ CfgStep([cfg EXCEPT !.stage = "again",
                           !.again = MergeConfigs(cfg.merged, cfg.defaults)])

\* the next configuration file is loaded
CfgDone ==
    /\ cfg.stage = "again"
    /\ CfgStep(Config("none", ZeroConfig, ZeroConfig, ZeroConfig, ZeroConfig))

NextConfig ==
    \/ CfgLoad
    \/ CfgMerge
    \/ CfgMergeAgain
    \/ CfgDone

\* ---------------------------------------------------------------- DocPeeker
\* TextPeekerComponent: the page name under which the peeker's ModalView
\* is shown
TextPeeker == 1

\* the tokens of a document string: braces, a key with its colon, a number
JsonTokens == {"{", "}", "k", "1"}

\* the strings Peek can be called with
Docs == UNION {[1..n -> JsonTokens] : n \in 0..MaxDoc}

\* json.Indent returns no error: the string is one JSON value, a number or
\* an object that is empty or holds one key and a value
RECURSIVE JsonValid(_)
JsonValid(d) ==
    \/ d = <<"1">>
    \/ d = <<"{", "}">>
    \/ /\ Len(d) >= 4
       /\ d[1] = "{" /\ d[2] = "k" /\ d[Len(d)] = "}"
       /\ JsonValid(SubSeq(d, 3, Len(d) - 1))

\* dc.state and whether the last Peek set the text of the ModalView
Peeker(doc) == [rawDocument |-> doc, textSet |-> JsonValid(doc)]

PeekIgnoresIndentError(st, doc) == AddPage(st, TextPeeker, TextPeeker, TRUE)

\* DocPeeker.Peek: an error of json.Indent is logged and nil is returned;
\* otherwise the ModalView is added to the root pages, visible.
Peek(st, doc) ==
    IF ~JsonValid(doc) THEN st
    ELSE AddPage(st, TextPeeker, TextPeeker, TRUE)

PeekInit == peeker = Peeker(<<>>)

\* ----------------------------------------------------------------- actions
\* The application is running: the base page is shown and holds the focus,
\* no focus is recorded, and the style of the configuration is loaded.
Init ==
    /\ pages = BasePages
    /\ focus = Main
    /\ previousFocus = Nil
    /\ currentStyle \in StyleNames
    /\ styles = currentStyle
    /\ pagesStyle = currentStyle
    /\ published = [events |-> <<>>, err |-> FALSE]
    /\ last = [op |-> "Init", id |-> Nil, visable |-> FALSE,
               focus0 |-> Nil, previousFocus0 |-> Nil, pages0 |-> <<>>,
               currentStyle0 |-> Nil, styles0 |-> Nil, pagesStyle0 |-> Nil,
               before |-> "Init", focus00 |-> Nil]
    /\ shown = {}
    /\ nested = NestedIdle
    /\ run = RunFresh
    /\ reshow = ReshowIdle
    /\ BusInit
    /\ BarInit
    /\ ListenerInit
    /\ ReentryInit
    /\ HistoryInit
    /\ PeekInit
    /\ CfgInit
    /\ DaoInit

CallAddPage ==
    \E id \in Overlays, visable \in BOOLEAN :
        LET st == AddPage(AppState, id, id, visable)
        IN /\ Commit(st)
           /\ Observe("AddPage", id, visable, st)
           /\ UNCHANGED <<busVars, barVars, lsnVars, reVars, histVars, extVars>>

CallRemovePage ==
    \E id \in Overlays :
        LET st == RemovePage(AppState, id)
        IN /\ Commit(st)
           /\ Observe("RemovePage", id, FALSE, st)
           /\ UNCHANGED <<busVars, barVars, lsnVars, reVars, histVars, extVars>>

CallSetFocus ==
    \E p \in Views :
        LET st == SetFocus(AppState, p)
        IN /\ Commit(st)
           /\ Observe("SetFocus", p, FALSE, st)
           /\ UNCHANGED <<busVars, barVars, lsnVars, reVars, histVars, extVars>>

CallGiveBackFocus ==
    LET st == GiveBackFocus(AppState)
    IN /\ Commit(st)
       /\ Observe("GiveBackFocus", Nil, FALSE, st)
       /\ UNCHANGED <<busVars, barVars, lsnVars, reVars, histVars, extVars>>

CallSetStyle ==
    \E styleName \in StyleNames, updateOk \in BOOLEAN, loadOk \in BOOLEAN :
        LET st == SetStyle(AppState, styleName, updateOk, loadOk)
        IN /\ Commit(st)
           /\ Observe("SetStyle", styleName, FALSE, st)
           /\ UNCHANGED <<busVars, barVars, lsnVars, reVars, histVars, extVars>>

Next ==
    \/ CallAddPage
    \/ CallRemovePage
    \/ CallSetFocus
    \/ CallGiveBackFocus
    \/ CallSetStyle

Spec == Init /\ [][Next]_vars

\* ------------------------------------------------- the peeker's key and button
CallPeek ==
    \E doc \in Docs :
        LET st == Peek(AppState, doc)
        IN /\ Commit(st)
           /\ Observe("Peek", TextPeeker, TRUE, st)
           /\ peeker' = Peeker(doc)
           /\ UNCHANGED <<busVars, barVars, lsnVars, reVars, histVars, cfgVars, daoVars>>

\* Ctrl-R on the focused ModalView: render peeks dc.state.rawDocument again
PeekRefresh ==
    /\ focus = TextPeeker
    /\ LET st == Peek(AppState, peeker.rawDocument)
       IN /\ Commit(st)
          /\ Observe("Peek", TextPeeker, TRUE, st)
    /\ UNCHANGED <<busVars, barVars, lsnVars, reVars, histVars, extVars>>

\* the Close button of the focused ModalView: root.RemovePage
PeekClose ==
    /\ focus = TextPeeker
    /\ LET st == RemovePage(AppState, TextPeeker)
       IN /\ Commit(st)
          /\ Observe("RemovePage", TextPeeker, FALSE, st)
    /\ UNCHANGED <<busVars, barVars, lsnVars, reVars, histVars, extVars>>

NextPeek ==
    \/ CallPeek
    \/ PeekRefresh
    \/ PeekClose
    \/ CallSetFocus

SpecPeek == Init /\ [][NextPeek]_vars

SpecConfig == Init /\ [][NextConfig]_vars

SpecDao == Init /\ [][NextDao]_vars

\* ------------------------------------------ the application with subscribers
BusSubscribe ==
    \E c \in Components :
        /\ subscribers' = Subscribe(subscribers, c)
        /\ deliveries' = <<>>
        /\ UNCHANGED <<barVars, lsnVars, reVars, histVars, extVars>>
        /\ Commit(AppState)
        /\ Observe("Subscribe", c, FALSE, AppState)

BusUnsubscribe ==
    \E c \in Components :
        /\ subscribers' = Unsubscribe(subscribers, c)
        /\ deliveries' = <<>>
        /\ UNCHANGED <<barVars, lsnVars, reVars, histVars, extVars>>
        /\ Commit(AppState)
        /\ Observe("Unsubscribe", c, FALSE, AppState)

BusSetStyle ==
    \E styleName \in StyleNames, updateOk \in BOOLEAN, loadOk \in BOOLEAN,
       failing \in SUBSET Components :
        LET st == SetStyle(AppState, styleName, updateOk, loadOk)
        IN /\ Commit(st)
           /\ Observe("SetStyle", styleName, FALSE, st)
           /\ deliveries' = DeliverAll(st.pub, 1, subscribers, failing)
           /\ UNCHANGED <<subscribers, barVars, lsnVars, reVars, histVars, extVars>>

BusSetFocus ==
    \E p \in Views, failing \in SUBSET Components :
        LET st == SetFocus(AppState, p)
        IN /\ Commit(st)
           /\ Observe("SetFocus", p, FALSE, st)
           /\ deliveries' = DeliverAll(st.pub, 1, subscribers, failing)
           /\ UNCHANGED <<subscribers, barVars, lsnVars, reVars, histVars, extVars>>

NextBus ==
    \/ BusSubscribe
    \/ BusUnsubscribe
    \/ BusSetStyle
    \/ BusSetFocus

SpecBus == Init /\ [][NextBus]_vars

SpecBar == Init /\ [][NextBar]_vars

SpecListener == Init /\ [][NextListener]_vars

SpecReentry == Init /\ [][NextReentry]_vars

SpecHistory == Init /\ [][NextHistory]_vars

\* ------------------------------------------------------------------ claims
\* the depth of the focus-restoration record: App.previousFocus is one slot
FocusDepth == IF previousFocus = Nil THEN 0 ELSE 1

\* the overlay pages currently shown
ShownOverlays == {i \in 1..Len(pages) : pages[i].name \in Overlays /\ pages[i].visible}

IsFocusChanged(e, p) == e.type = "FocusChanged" /\ e.data = p

\* C1: in the sequence AddPage(a), AddPage(b), RemovePage(b), RemovePage(a)
\* started with the focus on the base view, the focus is on a after the
\* first AddPage, on b after the second, on a again after RemovePage(b) and
\* on the base view after RemovePage(a).
NestedOverlayRestoresFocus ==
    /\ nested.stage = 1 => focus = nested.a
    /\ nested.stage = 2 => focus = nested.b
    /\ nested.stage = 3 => focus = nested.a
    /\ nested.stage = 4 => focus = Main

NestedOverlayDone == nested.stage = 4 /\ focus = Main /\ pages = BasePages

\* C2: the focus record never holds more entries than the page stack holds
\* pages, and after a run of AddPage/RemovePage calls in which every show is
\* matched by a hide the page stack and the focus record are back at the
\* depth they had before the run.
FocusDepthBoundedAndMatchedRunsReturn ==
    /\ FocusDepth <= Len(pages)
    /\ run.active /\ run.open = NoneOpen =>
           Len(pages) = Len(BasePages) /\ FocusDepth = 0

MatchedRunDone ==
    /\ run.active /\ run.open = NoneOpen /\ run.calls = 2 * MaxOpen
    /\ last.op = "RemovePage"
    /\ pages = BasePages /\ previousFocus = Nil

\* C3: RemovePage of an id that was never shown leaves the focus, the page
\* stack and the recorded previous focus unchanged and publishes no event.
RemoveNeverShownIsNoOp ==
    last.op = "RemovePage" /\ last.id \notin shown =>
        /\ focus = last.focus0
        /\ pages = last.pages0
        /\ previousFocus = last.previousFocus0
        /\ published.events = <<>>

\* C4: after overlay x is shown from view v, shown again any number of
\* times and then removed once, the focus is back on v.
ReshowThenRemoveRestoresFocus ==
    reshow.phase = "removed" => focus = reshow.v

\* C5: SetFocus(v) immediately followed by GiveBackFocus() leaves the focus
\* on the view that held it before SetFocus.
SetFocusThenGiveBackRestores ==
    last.op = "GiveBackFocus" /\ last.before = "SetFocus" => focus = last.focus00

SetFocusThenGiveBackDone ==
    /\ last.op = "GiveBackFocus" /\ last.before = "SetFocus"
    /\ last.focus00 # last.focus0
    /\ focus = last.focus00

\* C6: when a FocusChanged event is delivered, the page stack and the focus
\* record the handler observes are those the operation ends with.
FocusChangedSeesFinalState ==
    \A i \in 1..Len(published.events) :
        published.events[i].type = "FocusChanged" =>
            /\ published.events[i].pagesAt = pages
            /\ published.events[i].previousFocusAt = previousFocus

\* C7: a SetStyle that returns an error leaves the current style name and
\* the loaded styles as they were before the call.
FailedSetStyleKeepsConfiguration ==
    last.op = "SetStyle" /\ published.err =>
        /\ currentStyle = last.currentStyle0
        /\ styles = last.styles0

\* C8: a SetStyle that returns an error broadcasts nothing; a successful one
\* broadcasts exactly one StyleChanged, delivered after the new styles are
\* loaded and applied to the page stack.
StyleChangedOnlyAfterSuccess ==
    last.op = "SetStyle" =>
        /\ published.err => published.events = <<>>
        /\ ~published.err =>
               /\ Len(published.events) = 1
               /\ published.events[1].type = "StyleChanged"
               /\ published.events[1].pagesStyleAt = last.id
               /\ styles = last.id /\ pagesStyle = last.id

StyleChangedDelivered ==
    /\ last.op = "SetStyle" /\ ~published.err
    /\ last.id # last.pagesStyle0
    /\ Len(published.events) = 1 /\ pagesStyle = last.id

\* C9: the depth of the focus record equals the number of overlay pages
\* currently shown.
FocusDepthEqualsShownOverlays == FocusDepth = Cardinality(ShownOverlays)

\* C10: AddPage with visible=true records the view that held the focus when
\* it was called; when the page stack can hand the focus over, the new view
\* ends holding it, and whenever the new view holds it exactly one
\* FocusChanged carrying the view's identity is published; AddPage with
\* visible=false publishes nothing.
AddPageCapturesAndPublishes ==
    last.op = "AddPage" =>
        /\ last.visable => previousFocus = last.focus0
        /\ last.visable /\ PagesHasFocus(last.pages0, last.focus0) =>
               focus = last.id
        /\ last.visable /\ ItemHasFocus(last.id, focus) =>
               /\ Len(published.events) = 1
               /\ IsFocusChanged(published.events[1], last.id)
        /\ ~last.visable => published.events = <<>>

AddPageTookFocus ==
    /\ last.op = "AddPage" /\ last.visable
    /\ last.focus0 # last.id /\ focus = last.id
    /\ previousFocus = last.focus0
    /\ Len(published.events) = 1

\* C11: SetFocus(view) records the view that held the focus before the call,
\* moves the focus to view and then publishes exactly one FocusChanged whose
\* payload is view; a GiveBackFocus that restores a recorded view publishes
\* exactly one FocusChanged whose payload is the restored view.
SetFocusRecordsMovesPublishes ==
    /\ last.op = "SetFocus" =>
           /\ previousFocus = last.focus0
           /\ focus = last.id
           /\ Len(published.events) = 1
           /\ IsFocusChanged(published.events[1], last.id)
           /\ published.events[1].focusAt = last.id
           /\ published.events[1].previousFocusAt = last.focus0
    /\ last.op = "GiveBackFocus" /\ last.previousFocus0 # Nil =>
           /\ focus = last.previousFocus0
           /\ Len(published.events) = 1
           /\ IsFocusChanged(published.events[1], last.previousFocus0)
           /\ published.events[1].focusAt = last.previousFocus0

SetFocusMovedAndPublished ==
    /\ last.op = "SetFocus" /\ last.focus0 # last.id
    /\ focus = last.id /\ previousFocus = last.focus0
    /\ Len(published.events) = 1 /\ published.events[1].data = last.id

\* C12: when no previous focus is recorded, GiveBackFocus() and
\* RemovePage(id) change no focus and publish no FocusChanged event.
NoRecordNoFocusChange ==
    last.op \in {"GiveBackFocus", "RemovePage"} /\ last.previousFocus0 = Nil =>
        /\ focus = last.focus0
        /\ published.events = <<>>

\* C13: a Broadcast with N registered subscribers invokes exactly N
\* handlers, each subscriber's once and each with the same event, also when
\* handlers fail; a successful SetStyle issues one such broadcast of
\* StyleChanged and SetFocus one of FocusChanged.
InvocationsOf(c, k) ==
    {i \in 1..Len(deliveries) : deliveries[i].to = c /\ deliveries[i].broadcast = k}

IsSubscribed(c) == \E i \in 1..Len(subscribers) : subscribers[i] = c

TwoToggles ==
    /\ AllIdle
    /\ Cardinality({t \in Threads : epoch.did[t] = "Toggle"}) = 2
    /\ \A t \in Threads : epoch.did[t] \in {"Toggle", "none"}

TwoTogglesSameInEveryInterleaving == TwoToggles => enabled = epoch.e0

\* C15: every write to enabled, autocompleteOn and docKeys is made by a
\* thread that holds the bar's mutex.
WritesHoldMutex == lastWrite.locked

\* C19: with no call in progress, PushComponent calls minus PopComponent
\* calls is 1 when the bar is enabled and 0 when it is disabled.
PushPopBalanceMatchesEnabled ==
    AllIdle => net = (IF enabled THEN 1 ELSE 0)

\* C16: the update run for an Esc key and the one run for an Enter key both
\* disable the bar; for Esc it calls reject and not accept, for Enter it
\* calls accept with the text the bar holds and not reject.
EscRejectsEnterAccepts ==
    /\ outcome.key = KeyEsc =>
           outcome.calls = <<Call("reject", "none")>>
    /\ outcome.key = KeyEnter =>
           outcome.calls = <<Call("accept", outcome.textAt)>>
    /\ outcome.key \in TerminatingKeys => ~outcome.enabledAfter

EnterAcceptedText ==
    /\ outcome.key = KeyEnter /\ outcome.wasEnabled /\ ~outcome.enabledAfter
    /\ outcome.textAt = "q"
    /\ outcome.calls = <<Call("accept", "q")>>

\* C17: a key the input capture sends on eventChan is always received:
\* whenever the UI goroutine is at the send, the listener is receiving or
\* is on its way back to the receive without needing the UI goroutine.
KeySendFindsReceiver ==
    ui.pc = "send" => listener.pc \in {"recv", "got"}

\* C18: the listener goroutine never writes the enabled flag, never pushes
\* or pops a component and never calls accept or reject: these are done by
\* the UI goroutine running the queued update.
ListenerOnlyQueues ==
    /\ lastWrite.by # Listener
    /\ outcome.key # "none" => outcome.by = UI
    /\ listener.pc = "waiting" => updates # <<>>

EscHandledOnUI ==
    /\ outcome.key = KeyEsc /\ outcome.by = UI
    /\ lastWrite = Write("enabled", UI, TRUE)
    /\ listener.pc = "recv"

\* C20: GiveBackFocus ends after a bounded number of focus changes also when
\* the FocusChanged handler calls GiveBackFocus or SetFocus: no GiveBackFocus
\* is entered from the handler in the state (focus, recorded focus) in which
\* a GiveBackFocus still in progress was entered, which the handler being
\* the same at every delivery would repeat without end.
SameEntry(f, g) ==
    f.focusIn = g.focusIn /\ f.previousFocusIn = g.previousFocusIn

ReentrantGiveBackFocusEnds ==
    \A i, j \in 1..Len(frames) : i < j => ~SameEntry(frames[i], frames[j])

\* C21: when GiveBackFocus has returned no previous focus is recorded, and a
\* GiveBackFocus called right after a GiveBackFocus changes no focus and
\* publishes no event.
GiveBackFocusRestoresAtMostOnce ==
    last.op = "GiveBackFocus" =>
        /\ previousFocus = Nil
        /\ last.before = "GiveBackFocus" =>
               /\ focus = last.focus0
               /\ published.events = <<>>

SecondGiveBackFocusDidNothing ==
    /\ last.op = "GiveBackFocus" /\ last.before = "GiveBackFocus"
    /\ last.focus00 # last.focus0
    /\ focus = last.focus0 /\ previousFocus = Nil
    /\ published.events = <<>>

\* C22: the listener queues exactly one update for each Esc or Enter it has
\* received and none for any other value, which changes nothing; at most one
\* update is pending; the update, when run, disables the bar once and makes
\* one call of accept or reject, and the listener is then receiving again.
ListenerStep == listener.pc = "got" /\ listener'.pc # "got"

ListenerQueuesOncePerKey ==
    [][/\ ListenerStep /\ listener.key \in TerminatingKeys =>
              /\ updates' = Append(updates, listener.key)
              /\ listener'.pc = "waiting"
              /\ UNCHANGED <<barVars, text, outcome>>
       /\ ListenerStep /\ listener.key \notin TerminatingKeys =>
              /\ listener'.pc = "recv"
              /\ UNCHANGED <<barVars, updates, text, outcome>>
       /\ Len(updates') <= 1
       /\ listener.pc = "waiting" /\ listener'.pc # "waiting" =>
              /\ listener'.pc = "recv"
              /\ updates' = Tail(updates)
              /\ outcome'.key = Head(updates)
              /\ Len(outcome'.calls) = 1
              /\ net' = net - 1
      ]_vars

LaterKeyQueued ==
    /\ outcome.key = KeyEsc /\ outcome.by = UI
    /\ listener.pc = "waiting"
    /\ updates = <<KeyEnter>>

\* C23: the update run for Enter logs a failure exactly when SaveToHistory
\* returned an error, and with or without that error it disables the bar and
\* calls accept with the text, never reject.
AcceptDespiteSaveFailure ==
    /\ outcome.logged => outcome.key = KeyEnter
    /\ outcome.key = KeyEnter =>
           /\ outcome.logged = lastHist.err
           /\ outcome.calls = <<Call("accept", outcome.textAt)>>
           /\ ~outcome.enabledAfter

AcceptedAfterFailedSave ==
    /\ outcome.key = KeyEnter /\ outcome.logged
    /\ lastHist.op = "Save" /\ lastHist.err /\ lastHist.text = <<"q">>
    /\ outcome.calls = <<Call("accept", "q")>>
    /\ ~outcome.enabledAfter

\* C24: a SaveToHistory that repeats the successful call right before it
\* leaves the file as it was, and LoadHistory returns no text twice and the
\* texts it returns in the order of their first save.
Entries == LoadHistory(historyFile, TRUE).history

SaveToHistoryIdempotentNoDuplicates ==
    /\ lastHist.op = "Save" /\ lastHist.repeat /\ ~lastHist.err =>
           historyFile = lastHist.before
    /\ \A i, j \in 1..Len(Entries) : i < j => Entries[i] # Entries[j]
    /\ Entries = SelectSeq(saved, LAMBDA t : \E i \in 1..Len(Entries) : Entries[i] = t)

\* C25: a Peek whose document string is not valid JSON leaves the page
\* stack, the focus and the recorded previous focus as they were, publishes
\* no event and returns no error.
PeekInvalidJsonShowsNothing ==
    last.op = "Peek" /\ ~JsonValid(peeker.rawDocument) =>
        /\ pages = last.pages0
        /\ focus = last.focus0
        /\ previousFocus = last.previousFocus0
        /\ published.events = <<>>
        /\ ~published.err

InvalidPeekKeptRecord ==
    /\ last.op = "Peek" /\ ~JsonValid(peeker.rawDocument)
    /\ peeker.rawDocument = <<"{">>
    /\ previousFocus # Nil /\ previousFocus = last.previousFocus0
    /\ pages = last.pages0 /\ ~HasPage(pages, TextPeeker)
    /\ published.events = <<>>

\* C26: in the merged configuration every string or slice field the loaded
\* one held empty holds the default, every other field holds what the loaded
\* one held, in nested structs as well; merging the result again with the
\* same defaults changes nothing.
RECURSIVE OnlyEmptyFilled(_, _, _)
OnlyEmptyFilled(loaded, defaultValue, merged) ==
    /\ Len(merged) = Len(loaded)
    /\ \A i \in 1..Len(loaded) :
           /\ merged[i].kind = loaded[i].kind
           /\ loaded[i].kind = "string" =>
                  merged[i].str = (IF loaded[i].str = "" THEN defaultValue[i].str
                                   ELSE loaded[i].str)
           /\ loaded[i].kind = "slice" =>
                  merged[i].slice = (IF loaded[i].slice = <<>> THEN defaultValue[i].slice
                                     ELSE loaded[i].slice)
           /\ loaded[i].kind = "struct" =>
                  OnlyEmptyFilled(loaded[i].fields, defaultValue[i].fields,
                                  merged[i].fields)
           /\ loaded[i].kind = "bool" => merged[i] = loaded[i]

MergeFillsOnlyEmptyFields ==
    /\ cfg.stage \in {"merged", "again"} =>
           OnlyEmptyFilled(cfg.loaded, cfg.defaults, cfg.merged)
    /\ cfg.stage = "again" => cfg.again = cfg.merged

MergedNestedAndKept ==
    /\ cfg.stage = "again"
    /\ cfg.loaded = <<StringField("a"), BoolField(TRUE),
                      StructField(<<SliceField(<<>>), StringField("")>>)>>
    /\ cfg.defaults = <<StringField("d"), BoolField(FALSE),
                        StructField(<<SliceField(<<"x">>), StringField("d")>>)>>
    /\ cfg.merged = <<StringField("a"), BoolField(TRUE),
                      StructField(<<SliceField(<<"x">>), StringField("d")>>)>>
    /\ cfg.again = cfg.merged

\* C27: a successful UpdateDocument(id, document) leaves the number of
\* documents as it was and the document stored under id equal to the given
\* one; a failed one leaves the collection as it was and has sent one
\* request.
UpdateDocumentReplaces ==
    daoLast.op = "UpdateDocument" =>
        /\ ~daoLast.err =>
               /\ Count(collection) = Count(daoLast.before)
               /\ collection[daoLast.id] = daoLast.document.body
        /\ daoLast.err =>
               /\ collection = daoLast.before
               /\ daoLast.calls = 1

====
